---- MODULE Spec2Model ----
(***************************************************************************)
(* FlowCode CLI (src/src/cli/flowcode.js): the session store, the plan     *)
(* versioner, the plan extractor and the conversation loop of main().      *)
(*                                                                         *)
(* Text is modelled as a sequence of lexemes (TLA+ strings cannot be taken *)
(* apart): a lexeme is a whitespace character, a line terminator, a code   *)
(* fence, a word, a JSON punctuation character or a whole JSON string      *)
(* literal.  Directory names are sequences of characters.                  *)
(***************************************************************************)
EXTENDS Integers, Sequences, FiniteSets, TLC

VARIABLES
    store,      \* SESSIONS_DIR: session id -> persisted session document, or NoDoc
    fs,         \* project path -> plan folder: [exists, entries]
    cwd,        \* controller -> process.cwd() of its process
    session,    \* controller -> the `session` variable of main()
    pc,         \* controller -> position of main() in its loop
    resp,       \* controller -> the `response` of the turn in progress
    version,    \* controller -> the `version` of the turn in progress
    outcome,    \* controller -> what the last turn reported on the console
    issued,     \* project path -> numbers getNextPlanVersion has returned (history)
    turns,      \* number of turns started so far (bounds the run)
    response,   \* extractPlanJson called on its own: the argument
    planJson,   \* extractPlanJson called on its own: the value returned
    call        \* the plan functions called on their own: the last call

vars == <<store, fs, cwd, session, pc, resp, version, outcome, issued, turns,
          response, planJson, call>>

(***************************************************************************)
(* Sequences                                                               *)
(***************************************************************************)
Last(s) == s[Len(s)]

Range(s) == {s[i] : i \in 1..Len(s)}

RECURSIVE SumSeq(_)
SumSeq(s) == IF s = <<>> THEN 0 ELSE Head(s) + SumSeq(Tail(s))

SeqsUpTo(S, n) == UNION {[1..k -> S] : k \in 0..n}

(***************************************************************************)
(* Lexemes                                                                 *)
(***************************************************************************)
\* Three backticks (a backtick cannot be written in a TLA+ string).
Fence == "[fence]"
NL == "\n"
Space == " "
Whitespace == {Space, NL}

\* The JSON string literals of the model, quotes included, and what
\* JSON.parse decodes each to.
StrVal ==
    "\"files\"" :> "files" @@ "\"note\"" :> "note" @@
    "\"PRD\"" :> "PRD" @@ "\"TASKS\"" :> "TASKS" @@ "\"ERRORS\"" :> "ERRORS" @@
    "\"x\"" :> "x" @@ "\"y\"" :> "y" @@ "\"\"" :> "" @@
    "\"a{\"" :> "a{" @@ "\"}\"" :> "}"

StringLits == DOMAIN StrVal

\* Occurrences of the character { and of the character } in a lexeme.
OpenBraces(lex) == IF lex \in {"{", "\"a{\""} THEN 1 ELSE 0
CloseBraces(lex) == IF lex \in {"}", "\"}\""} THEN 1 ELSE 0

\* String.prototype.trim
RECURSIVE TrimLeft(_)
TrimLeft(t) == IF t # <<>> /\ Head(t) \in Whitespace THEN TrimLeft(Tail(t)) ELSE t

RECURSIVE TrimRight(_)
TrimRight(t) ==
    IF t # <<>> /\ Last(t) \in Whitespace THEN TrimRight(SubSeq(t, 1, Len(t) - 1)) ELSE t

Trim(t) == TrimRight(TrimLeft(t))

\* response.split('\n')
RECURSIVE SplitFrom(_, _, _)
SplitFrom(text, i, cur) ==
    IF i > Len(text) THEN <<cur>>
    ELSE IF text[i] = NL THEN <<cur>> \o SplitFrom(text, i + 1, <<>>)
    ELSE SplitFrom(text, i + 1, Append(cur, text[i]))

Split(text) == SplitFrom(text, 1, <<>>)

\* lines.join('\n'): how a text is put together from its lines
RECURSIVE Join(_)
Join(lines) ==
    IF lines = <<>> THEN <<>>
    ELSE IF Len(lines) = 1 THEN lines[1]
    ELSE lines[1] \o <<NL>> \o Join(Tail(lines))

(***************************************************************************)
(* JavaScript values and JSON.parse (objects and strings)                  *)
(***************************************************************************)
JNull == [type |-> "null", str |-> "", members |-> <<>>]
JUndefined == [type |-> "undefined", str |-> "", members |-> <<>>]
JStr(s) == [type |-> "string", str |-> s, members |-> <<>>]
JObj(m) == [type |-> "object", str |-> "", members |-> m]

\* ToBoolean
Truthy(v) == v.type = "object" \/ (v.type = "string" /\ v.str # "")

\* v[key]: the last member of that name wins; anything else has no such property
Get(v, key) ==
    IF v.type = "object" /\ \E i \in 1..Len(v.members) : v.members[i][1] = key
    THEN LET i == CHOOSE j \in 1..Len(v.members) :
                      /\ v.members[j][1] = key
                      /\ \A k \in (j + 1)..Len(v.members) : v.members[k][1] # key
         IN v.members[i][2]
    ELSE JUndefined

Keys(v) == {v.members[i][1] : i \in 1..Len(v.members)}

ParseFail == [ok |-> FALSE, val |-> JNull, next |-> 0]

RECURSIVE ParseValue(_, _), ParseMembers(_, _, _)
ParseValue(t, i) ==
    IF i > Len(t) THEN ParseFail
    ELSE IF t[i] \in StringLits
    THEN [ok |-> TRUE, val |-> JStr(StrVal[t[i]]), next |-> i + 1]
    ELSE IF t[i] = "{"
    THEN IF i + 1 <= Len(t) /\ t[i + 1] = "}"
         THEN [ok |-> TRUE, val |-> JObj(<<>>), next |-> i + 2]
         ELSE ParseMembers(t, i + 1, <<>>)
    ELSE ParseFail

ParseMembers(t, i, acc) ==
    IF i + 1 > Len(t) \/ t[i] \notin StringLits \/ t[i + 1] # ":" THEN ParseFail
    ELSE LET v == ParseValue(t, i + 2)
         IN IF ~v.ok \/ v.next > Len(t) THEN ParseFail
            ELSE LET acc2 == Append(acc, <<StrVal[t[i]], v.val>>)
                 IN IF t[v.next] = "}"
                    THEN [ok |-> TRUE, val |-> JObj(acc2), next |-> v.next + 1]
                    ELSE IF t[v.next] = ","
                    THEN ParseMembers(t, v.next + 1, acc2)
                    ELSE ParseFail

\* JSON.parse(text): [ok |-> FALSE] stands for the SyntaxError it throws
JSONparse(text) ==
    LET t == SelectSeq(text, LAMBDA lex : lex \notin Whitespace)
        r == ParseValue(t, 1)
    IN IF r.ok /\ r.next = Len(t) + 1 THEN [ok |-> TRUE, val |-> r.val]
       ELSE [ok |-> FALSE, val |-> JNull]

(***************************************************************************)
(* extractPlanJson                                                         *)
(***************************************************************************)
\* line.trim().startsWith('```md') || line.trim().startsWith('```json')
IsOpeningFence(line) ==
    LET t == Trim(line)
    IN Len(t) >= 2 /\ t[1] = Fence /\ t[2] \in {"md", "json"}

\* line.trim() === '```'
IsClosingFence(line) == Trim(line) = <<Fence>>

\* line.trim().startsWith('{')
StartsWithBrace(line) == LET t == Trim(line) IN t # <<>> /\ t[1] = "{"

\* (line.match(/\{/g) || []).length - (line.match(/\}/g) || []).length
BraceDelta(line) ==
    SumSeq([i \in 1..Len(line) |-> OpenBraces(line[i]) - CloseBraces(line[i])])

\* Mutant: the scan starts inside a block.
ScanInitInside ==
    [inJsonBlock |-> TRUE, started |-> FALSE, braceCount |-> 0,
     jsonContent |-> <<>>, stopped |-> FALSE]

ScanInit ==
    [inJsonBlock |-> FALSE, started |-> FALSE, braceCount |-> 0,
     jsonContent |-> <<>>, stopped |-> FALSE]

\* Mutant: the closing braces of a line are not counted.
ScanLineOpensOnly(st, line) ==
    IF st.stopped THEN st
    ELSE IF ~st.inJsonBlock /\ IsOpeningFence(line)
    THEN [st EXCEPT !.inJsonBlock = TRUE, !.started = FALSE,
                    !.braceCount = 0, !.jsonContent = <<>>]
    ELSE IF ~st.inJsonBlock THEN st
    ELSE IF IsClosingFence(line) /\ st.started /\ st.braceCount = 0
    THEN [st EXCEPT !.stopped = TRUE]
    ELSE IF st.started \/ StartsWithBrace(line)
    THEN [st EXCEPT !.started = TRUE,
                    !.jsonContent = @ \o line \o <<NL>>,
                    !.braceCount = @ + SumSeq([i \in 1..Len(line) |-> OpenBraces(line[i])])]
    ELSE st

\* Mutant: a closing fence ends the scan whether or not an object has begun.
ScanLineAnyClose(st, line) ==
    IF st.stopped THEN st
    ELSE IF ~st.inJsonBlock /\ IsOpeningFence(line)
    THEN [st EXCEPT !.inJsonBlock = TRUE, !.started = FALSE,
                    !.braceCount = 0, !.jsonContent = <<>>]
    ELSE IF ~st.inJsonBlock THEN st
    ELSE IF IsClosingFence(line) /\ st.braceCount = 0
    THEN [st EXCEPT !.stopped = TRUE]
    ELSE IF st.started \/ StartsWithBrace(line)
    THEN [st EXCEPT !.started = TRUE,
                    !.jsonContent = @ \o line \o <<NL>>,
                    !.braceCount = @ + BraceDelta(line)]
    ELSE st

\* Mutant: a closing fence closes a block in which no object has begun.
ScanLineCloses(st, line) ==
    IF st.stopped THEN st
    ELSE IF ~st.inJsonBlock /\ IsOpeningFence(line)
    THEN [st EXCEPT !.inJsonBlock = TRUE, !.started = FALSE,
                    !.braceCount = 0, !.jsonContent = <<>>]
    ELSE IF ~st.inJsonBlock THEN st
    ELSE IF IsClosingFence(line) /\ st.started /\ st.braceCount = 0
    THEN [st EXCEPT !.stopped = TRUE]
    ELSE IF IsClosingFence(line) /\ ~st.started
    THEN [st EXCEPT !.inJsonBlock = FALSE]
    ELSE IF st.started \/ StartsWithBrace(line)
    THEN [st EXCEPT !.started = TRUE,
                    !.jsonContent = @ \o line \o <<NL>>,
                    !.braceCount = @ + BraceDelta(line)]
    ELSE st

\* Mutant: a closing fence ends the scan of a begun object whatever the count.
ScanLineStopsUnbalanced(st, line) ==
    IF st.stopped THEN st
    ELSE IF ~st.inJsonBlock /\ IsOpeningFence(line)
    THEN [st EXCEPT !.inJsonBlock = TRUE, !.started = FALSE,
                    !.braceCount = 0, !.jsonContent = <<>>]
    ELSE IF ~st.inJsonBlock THEN st
    ELSE IF IsClosingFence(line) /\ st.started
    THEN [st EXCEPT !.stopped = TRUE]
    ELSE IF st.started \/ StartsWithBrace(line)
    THEN [st EXCEPT !.started = TRUE,
                    !.jsonContent = @ \o line \o <<NL>>,
                    !.braceCount = @ + BraceDelta(line)]
    ELSE st

\* One pass of the for loop; stopped is the break.
ScanLine(st, line) ==
    IF st.stopped THEN st
    ELSE IF ~st.inJsonBlock /\ IsOpeningFence(line)
    THEN [st EXCEPT !.inJsonBlock = TRUE, !.started = FALSE,
                    !.braceCount = 0, !.jsonContent = <<>>]
    ELSE IF ~st.inJsonBlock THEN st
    ELSE IF IsClosingFence(line) /\ st.started /\ st.braceCount = 0
    THEN [st EXCEPT !.stopped = TRUE]
    ELSE IF st.started \/ StartsWithBrace(line)
    THEN [st EXCEPT !.started = TRUE,
                    !.jsonContent = @ \o line \o <<NL>>,
                    !.braceCount = @ + BraceDelta(line)]
    ELSE st

\* The scanner after the first k lines.
RECURSIVE Scan(_, _)
Scan(lines, k) == IF k = 0 THEN ScanInit ELSE ScanLine(Scan(lines, k - 1), lines[k])

\* response.match(/\{[\s\S]*"files"[\s\S]*\}/): from the first { of the text
\* to its last }, when "files" lies between them.  A brace inside a string
\* literal cuts the literal: the match then holds the literal's other quote
\* alone, written as the lexeme "\"".
HasOpen(text) == {i \in 1..Len(text) : OpenBraces(text[i]) > 0}
HasClose(text) == {i \in 1..Len(text) : CloseBraces(text[i]) > 0}
Min(S) == CHOOSE n \in S : \A m \in S : n <= m
Max(S) == CHOOSE n \in S : \A m \in S : n >= m

RegexMatch(text) ==
    IF HasOpen(text) = {} \/ HasClose(text) = {} THEN [found |-> FALSE, text |-> <<>>]
    ELSE LET i == Min(HasOpen(text))
             j == Max(HasClose(text))
         IN IF \E k \in (i + 1)..(j - 1) : text[k] = "\"files\""
            THEN [found |-> TRUE,
                  text |-> (IF text[i] = "{" THEN <<"{">> ELSE <<"{", "\"">>)
                           \o SubSeq(text, i + 1, j - 1)
                           \o (IF text[j] = "}" THEN <<"}">> ELSE <<"\"", "}">>)]
            ELSE [found |-> FALSE, text |-> <<>>]

Fallback(text) ==
    LET m == RegexMatch(text)
    IN IF m.found /\ JSONparse(m.text).ok THEN JSONparse(m.text).val ELSE JNull

\* Mutant: the fallback is tried after a parse failure too.
extractPlanJsonRetry(text) ==
    LET lines == Split(text)
        st == Scan(lines, Len(lines))
    IN IF Trim(st.jsonContent) # <<>> /\ JSONparse(st.jsonContent).ok
       THEN JSONparse(st.jsonContent).val
       ELSE Fallback(text)

extractPlanJson(text) ==
    LET lines == Split(text)
        st == Scan(lines, Len(lines))
    IN IF Trim(st.jsonContent) # <<>>
       THEN IF JSONparse(st.jsonContent).ok THEN JSONparse(st.jsonContent).val ELSE JNull
       ELSE Fallback(text)

(***************************************************************************)
(* The plan folder of a project and the plan functions                     *)
(***************************************************************************)
\* A plan folder: exists is fs.existsSync(planFolder); entries are what
\* fs.readdirSync(planFolder) lists, each a directory with its files or a
\* file with its content.  Names are sequences of characters.
NoFolder == [exists |-> FALSE, entries |-> <<>>]
DirEntry(files) == [kind |-> "dir", content |-> "", files |-> files]
FileEntry(text) == [kind |-> "file", content |-> text, files |-> <<>>]

fileOrder ==
    <<"PRD", "ARCHITECTURE", "STACK", "TASKS", "STRUCTURE", "SCHEMA",
      "CONVENTIONS", "ENV", "API", "UI", "ERRORS">>

\* `${fileName.toLowerCase()}.md`
MdName ==
    "PRD" :> <<"p", "r", "d", ".", "m", "d">> @@
    "ARCHITECTURE" :> <<"a", "r", "c", "h", "i", "t", "e", "c", "t", "u", "r", "e", ".", "m", "d">> @@
    "STACK" :> <<"s", "t", "a", "c", "k", ".", "m", "d">> @@
    "TASKS" :> <<"t", "a", "s", "k", "s", ".", "m", "d">> @@
    "STRUCTURE" :> <<"s", "t", "r", "u", "c", "t", "u", "r", "e", ".", "m", "d">> @@
    "SCHEMA" :> <<"s", "c", "h", "e", "m", "a", ".", "m", "d">> @@
    "CONVENTIONS" :> <<"c", "o", "n", "v", "e", "n", "t", "i", "o", "n", "s", ".", "m", "d">> @@
    "ENV" :> <<"e", "n", "v", ".", "m", "d">> @@
    "API" :> <<"a", "p", "i", ".", "m", "d">> @@
    "UI" :> <<"u", "i", ".", "m", "d">> @@
    "ERRORS" :> <<"e", "r", "r", "o", "r", "s", ".", "m", "d">>

DigitChars == <<"0", "1", "2", "3", "4", "5", "6", "7", "8", "9">>
IsDigit(ch) == \E d \in 1..10 : DigitChars[d] = ch
DigitVal(ch) == (CHOOSE d \in 1..10 : DigitChars[d] = ch) - 1

\* Number to decimal text, as the template literal `v${version}` does
RECURSIVE ToDigits(_)
ToDigits(n) ==
    IF n < 10 THEN <<DigitChars[n + 1]>>
    ELSE ToDigits(n \div 10) \o <<DigitChars[(n % 10) + 1]>>

\* parseInt: the number its leading digits spell (0 stands for the NaN of a
\* text without a leading digit, which the filter of line 158 rules out)
RECURSIVE LeadingDigits(_)
LeadingDigits(chars) ==
    IF chars # <<>> /\ IsDigit(Head(chars))
    THEN <<Head(chars)>> \o LeadingDigits(Tail(chars))
    ELSE <<>>

RECURSIVE DigitsValue(_)
DigitsValue(ds) ==
    IF ds = <<>> THEN 0
    ELSE 10 * DigitsValue(SubSeq(ds, 1, Len(ds) - 1)) + DigitVal(Last(ds))

parseInt(chars) == DigitsValue(LeadingDigits(chars))

\* getVersionedPlanFolderPath: the entry `v${version}` of the plan folder
VName(n) == <<"v">> \o ToDigits(n)

\* Mutant: only the first character after the v is tested.
IsVersionNamePrefix(d) ==
    /\ d # <<>>
    /\ d[1] = "v"
    /\ Len(d) >= 2
    /\ IsDigit(d[2])

\* d.startsWith('v') && /^\d+$/.test(d.substring(1))
IsVersionName(d) ==
    /\ d # <<>>
    /\ d[1] = "v"
    /\ Len(d) >= 2
    /\ \A i \in 2..Len(d) : IsDigit(d[i])

\* Mutant: the highest number is returned as it is.
getNextPlanVersionMax(folder) ==
    IF ~folder.exists THEN 1
    ELSE LET dirs == {d \in DOMAIN folder.entries : IsVersionName(d)}
         IN IF dirs = {} THEN 1
            ELSE Max({parseInt(Tail(d)) : d \in dirs})

\* Mutant: the folder is never read.
getNextPlanVersionOne(folder) == 1

getNextPlanVersion(folder) ==
    IF ~folder.exists THEN 1
    ELSE LET dirs == {d \in DOMAIN folder.entries : IsVersionName(d)}
         IN IF dirs = {} THEN 1
            ELSE Max({parseInt(Tail(d)) : d \in dirs}) + 1

\* The file system calls of writePlanFiles(projectPath, files, version), in
\* order: mkdirSync when the versioned folder is absent, one writeFileSync
\* per truthy files[fileName] into the versioned folder, then the same into
\* the plan folder.
SectionsWritten(files) ==
    SelectSeq(fileOrder, LAMBDA fileName : Truthy(Get(files, fileName)))

\* Mutant: a version folder that is there is not written again; a new one is
\* made.
WriteOpsFresh(folder, files, ver) ==
    LET present == SectionsWritten(files)
        dir == IF folder.exists /\ VName(ver) \in DOMAIN folder.entries
               THEN VName(getNextPlanVersion(folder))
               ELSE VName(ver)
    IN <<[op |-> "mkdir", dir |-> dir, sec |-> ""]>>
       \o [i \in 1..Len(present) |->
              [op |-> "write", dir |-> dir, sec |-> present[i]]]
       \o [i \in 1..Len(present) |->
              [op |-> "write", dir |-> <<>>, sec |-> present[i]]]

WriteOps(folder, files, ver) ==
    LET present == SectionsWritten(files)
    IN (IF folder.exists /\ VName(ver) \in DOMAIN folder.entries
        THEN <<>>
        ELSE <<[op |-> "mkdir", dir |-> VName(ver), sec |-> ""]>>)
       \o [i \in 1..Len(present) |->
              [op |-> "write", dir |-> VName(ver), sec |-> present[i]]]
       \o [i \in 1..Len(present) |->
              [op |-> "write", dir |-> <<>>, sec |-> present[i]]]

\* One call: mkdirSync(versionedFolder, {recursive: true}) or
\* writeFileSync(filePath, files[fileName]); dir = <<>> is the plan folder.
ApplyOp(folder, files, o) ==
    IF o.op = "mkdir"
    THEN [exists |-> TRUE, entries |-> (o.dir :> DirEntry(<<>>)) @@ folder.entries]
    ELSE IF o.dir = <<>>
    THEN [folder EXCEPT !.entries =
              (MdName[o.sec] :> FileEntry(Get(files, o.sec).str)) @@ @]
    ELSE [folder EXCEPT !.entries[o.dir].files =
              (MdName[o.sec] :> Get(files, o.sec).str) @@ @]

RECURSIVE ApplyOps(_, _, _, _)
ApplyOps(folder, files, ops, n) ==
    IF n = 0 THEN folder
    ELSE ApplyOp(ApplyOps(folder, files, ops, n - 1), files, ops[n])

\* writeFileSync throws a TypeError for data that is no string; every call
\* can fail in the file system.  CanDo is the number of calls that can be
\* reached: those before the first one that must throw.
MustThrow(files, o) == o.op = "write" /\ Get(files, o.sec).type # "string"

CanDo(files, ops) ==
    IF \E i \in 1..Len(ops) : MustThrow(files, ops[i])
    THEN Min({i \in 1..Len(ops) : MustThrow(files, ops[i])}) - 1
    ELSE Len(ops)

\* writePlanFiles that ends after `done` calls: the folder it leaves, and
\* whether it returned (ok) or threw.
writePlanFiles(folder, files, ver, done) ==
    LET ops == WriteOps(folder, files, ver)
    IN [folder |-> ApplyOps(folder, files, ops, done), ok |-> done = Len(ops)]

WriteRuns(folder, files, ver) ==
    0..CanDo(files, WriteOps(folder, files, ver))

(***************************************************************************)
(* Sessions                                                                *)
(*                                                                         *)
(* A session document holds id, projectPath, messages, planGenerated and   *)
(* planVersion.  projectName, createdAt, updatedAt and the ids and         *)
(* timestamps of messages are left out: no statement of the program reads  *)
(* them except to print them and to order the list /resume shows, from     *)
(* which the user picks any session.                                       *)
(***************************************************************************)
MaxTurns == 2

SessionIds == {1, 2}
Controllers == {1, 2}
Paths == {"/w1", "/w2"}

\* No file in SESSIONS_DIR; also the null of getSession and addMessage.
NoDoc ==
    [id |-> 0, projectPath |-> "", messages |-> <<>>,
     planGenerated |-> FALSE, planVersion |-> 0]

getSession(st, sessionId) == st[sessionId]

saveSession(st, doc) == [st EXCEPT ![doc.id] = doc]

\* createSession with the id generateSessionId returns
NewDoc(id, projectPath) ==
    [id |-> id, projectPath |-> projectPath, messages |-> <<>>,
     planGenerated |-> FALSE, planVersion |-> 0]

\* Mutant: a session that is not stored is created.
addMessageCreate(st, sessionId, message) ==
    LET doc == IF getSession(st, sessionId) = NoDoc
               THEN NewDoc(sessionId, "/w1")
               ELSE getSession(st, sessionId)
        doc2 == [doc EXCEPT !.messages = Append(@, message)]
    IN [store |-> saveSession(st, doc2), ret |-> doc2]

\* addMessage: the store it leaves and the value it returns
addMessage(st, sessionId, message) ==
    LET doc == getSession(st, sessionId)
    IN IF doc = NoDoc THEN [store |-> st, ret |-> NoDoc]
       ELSE LET doc2 == [doc EXCEPT !.messages = Append(@, message)]
            IN [store |-> saveSession(st, doc2), ret |-> doc2]

(***************************************************************************)
(* What the user types and what the chat answers                           *)
(***************************************************************************)
OpenMd == <<Fence, "md">>
OpenJson == <<Fence, "json">>
CloseFence == <<Fence>>
Prose == <<"text">>
PlanLine == <<"{", "\"files\"", ":", "{", "\"PRD\"", ":", "\"x\"", "}", "}">>
NoteLine == <<"{", "\"note\"", ":", "\"x\"", "}">>

Inputs == {<<"text">>}

Responses ==
    { Join(<<Prose>>),
      Join(<<Prose, OpenMd, PlanLine, CloseFence>>),
      Join(<<OpenJson,
             <<"{">>,
             <<Space, "\"files\"", ":", Space, "{">>,
             <<Space, Space, "\"PRD\"", ":", Space, "\"y\"", ",">>,
             <<Space, Space, "\"TASKS\"", ":", Space, "\"x\"">>,
             <<Space, "}">>,
             <<"}">>,
             CloseFence, Prose>>),
      Join(<<OpenMd, <<"{", "\"files\"", ":", "{", "}", "}">>, CloseFence>>),
      Join(<<OpenMd, <<"{", "\"files\"", ":", "{", "\"PRD\"", ":", "\"\"", "}", "}">>,
             CloseFence>>),
      Join(<<OpenMd, <<"{", "\"files\"", ":">>, CloseFence>>) }

(***************************************************************************)
(* main(): the loop, one controller c                                      *)
(***************************************************************************)
\* const planJson = extractPlanJson(response), for each text the chat can
\* answer (and the empty text no turn has replaced yet)
planJsonOf == [text \in Responses \cup {<<>>} |-> extractPlanJson(text)]

\* planJson && planJson.files
HasPlan(text) ==
    LET found == planJsonOf[text]
    IN Truthy(found) /\ Truthy(Get(found, "files"))

PlanFiles(text) == Get(planJsonOf[text], "files")

FreshIds == {id \in SessionIds : store[id] = NoDoc}

\* Mutant: the user message is not stored.
UserInputUnsaved(c) ==
    /\ pc[c] = "Idle"
    /\ turns < MaxTurns
    /\ pc' = [pc EXCEPT ![c] = "AwaitingResponse"]
    /\ outcome' = [outcome EXCEPT ![c] = "running"]
    /\ turns' = turns + 1
    /\ UNCHANGED <<store, session, fs, cwd, resp, version, issued, response, planJson, call>>

\* Line 420-423 and 522-535: a line that is no command; the user message is
\* added, and a null session ends the process (TypeError outside the try).
UserInput(c) ==
    /\ pc[c] = "Idle"
    /\ turns < MaxTurns
    /\ \E input \in Inputs :
          LET r == addMessage(store, session[c].id, [role |-> "user", content |-> input])
          IN /\ store' = r.store
             /\ session' = [session EXCEPT ![c] = r.ret]
             /\ pc' = [pc EXCEPT ![c] = IF r.ret = NoDoc THEN "Crashed" ELSE "AwaitingResponse"]
    /\ outcome' = [outcome EXCEPT ![c] = "running"]
    /\ turns' = turns + 1
    /\ UNCHANGED <<fs, cwd, resp, version, issued, response, planJson, call>>

\* Line 539-549: chatWithGemini returns; the assistant message is added.
ChatOk(c) ==
    /\ pc[c] = "AwaitingResponse"
    /\ \E text \in Responses :
          LET r == addMessage(store, session[c].id, [role |-> "assistant", content |-> text])
          IN /\ store' = r.store
             /\ session' = [session EXCEPT ![c] = r.ret]
             /\ resp' = [resp EXCEPT ![c] = text]
    /\ pc' = [pc EXCEPT ![c] = "Extracting"]
    /\ UNCHANGED <<fs, cwd, version, outcome, issued, turns, response, planJson, call>>

\* Mutant: the user message is taken back.
ChatFailRetract(c) ==
    /\ pc[c] = "AwaitingResponse"
    /\ pc' = [pc EXCEPT ![c] = "Idle"]
    /\ outcome' = [outcome EXCEPT ![c] = "chatFailed"]
    /\ store' = [store EXCEPT ![session[c].id].messages = SubSeq(@, 1, Len(@) - 1)]
    /\ UNCHANGED <<fs, cwd, session, resp, version, issued, turns,
                   response, planJson, call>>

\* Line 539 throws, line 566-568 reports it.
ChatFail(c) ==
    /\ pc[c] = "AwaitingResponse"
    /\ pc' = [pc EXCEPT ![c] = "Idle"]
    /\ outcome' = [outcome EXCEPT ![c] = "chatFailed"]
    /\ UNCHANGED <<store, fs, cwd, session, resp, version, issued, turns,
                   response, planJson, call>>

\* Mutant: versioning follows whatever extraction found.
ExtractNoCheck(c) ==
    /\ pc[c] = "Extracting"
    /\ pc' = [pc EXCEPT ![c] = "Versioning"]
    /\ UNCHANGED <<store, fs, cwd, session, resp, version, outcome, issued, turns,
                   response, planJson, call>>

\* Mutant: the session update is outside the if of line 554.
ExtractThenSave(c) ==
    /\ pc[c] = "Extracting"
    /\ pc' = [pc EXCEPT ![c] = IF HasPlan(resp[c]) THEN "Versioning" ELSE "Saving"]
    /\ UNCHANGED <<store, fs, cwd, session, resp, version, outcome, issued, turns,
                   response, planJson, call>>

\* Line 552-554
Extract(c) ==
    /\ pc[c] = "Extracting"
    /\ IF HasPlan(resp[c])
       THEN /\ pc' = [pc EXCEPT ![c] = "Versioning"]
            /\ UNCHANGED outcome
       ELSE /\ pc' = [pc EXCEPT ![c] = "Idle"]
            /\ outcome' = [outcome EXCEPT ![c] = "noPlan"]
    /\ UNCHANGED <<store, fs, cwd, session, resp, version, issued, turns,
                   response, planJson, call>>

\* Line 555; session.projectPath of a null session throws into the catch.
NextVersion(c) ==
    /\ pc[c] = "Versioning"
    /\ IF session[c] = NoDoc
       THEN /\ pc' = [pc EXCEPT ![c] = "Idle"]
            /\ outcome' = [outcome EXCEPT ![c] = "error"]
            /\ UNCHANGED <<version, issued>>
       ELSE LET p == session[c].projectPath
                n == getNextPlanVersion(fs[p])
            IN /\ version' = [version EXCEPT ![c] = n]
               /\ issued' = [issued EXCEPT ![p] = @ \cup {n}]
               /\ pc' = [pc EXCEPT ![c] = "Writing"]
               /\ UNCHANGED outcome
    /\ UNCHANGED <<store, fs, cwd, session, resp, turns, response, planJson, call>>

\* Mutant: the exception of writePlanFiles is swallowed.
WriteSwallow(c) ==
    /\ pc[c] = "Writing"
    /\ LET p == session[c].projectPath
       IN \E done \in WriteRuns(fs[p], PlanFiles(resp[c]), version[c]) :
             LET w == writePlanFiles(fs[p], PlanFiles(resp[c]), version[c], done)
             IN /\ fs' = [fs EXCEPT ![p] = w.folder]
                /\ pc' = [pc EXCEPT ![c] = "Saving"]
                /\ outcome' = [outcome EXCEPT ![c] = IF w.ok THEN "written" ELSE "writeFailed"]
    /\ UNCHANGED <<store, cwd, session, resp, version, issued, turns,
                   response, planJson, call>>

\* Line 556: writePlanFiles returns, or throws after some of its calls.
Write(c) ==
    /\ pc[c] = "Writing"
    /\ LET p == session[c].projectPath
       IN \E done \in WriteRuns(fs[p], PlanFiles(resp[c]), version[c]) :
             LET w == writePlanFiles(fs[p], PlanFiles(resp[c]), version[c], done)
             IN /\ fs' = [fs EXCEPT ![p] = w.folder]
                /\ pc' = [pc EXCEPT ![c] = IF w.ok THEN "Saving" ELSE "Idle"]
                /\ outcome' = [outcome EXCEPT ![c] = IF w.ok THEN "written" ELSE "writeFailed"]
    /\ UNCHANGED <<store, cwd, session, resp, version, issued, turns,
                   response, planJson, call>>

\* Mutant: the document saved is built anew, without the messages.
SaveAnew(c) ==
    /\ pc[c] = "Saving"
    /\ LET doc == [NewDoc(session[c].id, session[c].projectPath)
                      EXCEPT !.planGenerated = TRUE, !.planVersion = version[c]]
       IN /\ session' = [session EXCEPT ![c] = doc]
          /\ store' = saveSession(store, doc)
    /\ pc' = [pc EXCEPT ![c] = "Idle"]
    /\ outcome' = [outcome EXCEPT ![c] = "planSaved"]
    /\ UNCHANGED <<fs, cwd, resp, version, issued, turns, response, planJson, call>>

\* Line 558-563
Save(c) ==
    /\ pc[c] = "Saving"
    /\ LET doc == [session[c] EXCEPT !.planGenerated = TRUE, !.planVersion = version[c]]
       IN /\ session' = [session EXCEPT ![c] = doc]
          /\ store' = saveSession(store, doc)
    /\ pc' = [pc EXCEPT ![c] = "Idle"]
    /\ outcome' = [outcome EXCEPT ![c] = "planSaved"]
    /\ UNCHANGED <<fs, cwd, resp, version, issued, turns, response, planJson, call>>

\* Line 439-443: /new
CmdNew(c) ==
    /\ pc[c] = "Idle"
    /\ \E id \in FreshIds :
          LET doc == NewDoc(id, cwd[c])
          IN /\ store' = saveSession(store, doc)
             /\ session' = [session EXCEPT ![c] = doc]
    /\ UNCHANGED <<fs, cwd, pc, resp, version, outcome, issued, turns,
                   response, planJson, call>>

\* Line 458-464 with selectSession: /resume and a listed session
CmdResume(c) ==
    /\ pc[c] = "Idle"
    /\ \E id \in SessionIds :
          /\ store[id] # NoDoc
          /\ session' = [session EXCEPT ![c] = store[id]]
    /\ UNCHANGED <<store, fs, cwd, pc, resp, version, outcome, issued, turns,
                   response, planJson, call>>

\* Line 434-437 and 374-402: /exit, and main() started again in some
\* directory; it resumes a session or creates one.  (It offers the most
\* recent session only; /resume then reaches every other one.)
Restart(c) ==
    /\ pc[c] = "Idle"
    /\ \E dir \in Paths :
          /\ cwd' = [cwd EXCEPT ![c] = dir]
          /\ \/ \E id \in SessionIds :
                   /\ store[id] # NoDoc
                   /\ session' = [session EXCEPT ![c] = store[id]]
                   /\ UNCHANGED store
             \/ \E id \in FreshIds :
                   /\ store' = saveSession(store, NewDoc(id, dir))
                   /\ session' = [session EXCEPT ![c] = NewDoc(id, dir)]
    /\ UNCHANGED <<fs, pc, resp, version, outcome, issued, turns,
                   response, planJson, call>>

\* A version directory removed from outside the program.
ExternalRemove ==
    /\ \E p \in Paths : \E d \in DOMAIN fs[p].entries :
          /\ IsVersionName(d)
          /\ fs' = [fs EXCEPT ![p].entries =
                       [e \in (DOMAIN fs[p].entries) \ {d} |-> fs[p].entries[e]]]
    /\ UNCHANGED <<store, cwd, session, pc, resp, version, outcome, issued, turns,
                   response, planJson, call>>

NoCall ==
    [op |-> "none", before |-> NoFolder, files |-> JNull, ver |-> 0, id |-> 0,
     ret |-> 0, ok |-> FALSE]

\* The functions called on their own are not in use.
Unused ==
    /\ response = <<>>
    /\ planJson = JNull
    /\ call = NoCall

\* main() started for the first time, in /w1, by controller 1: no session
\* is stored, so one is created (line 398-402).
ControllersAtStart ==
    /\ store = [id \in SessionIds |-> IF id = 1 THEN NewDoc(1, "/w1") ELSE NoDoc]
    /\ cwd = [c \in Controllers |-> "/w1"]
    /\ session = [c \in Controllers |-> IF c = 1 THEN NewDoc(1, "/w1") ELSE NoDoc]
    /\ pc = [c \in Controllers |-> IF c = 1 THEN "Idle" ELSE "Off"]
    /\ resp = [c \in Controllers |-> <<>>]
    /\ version = [c \in Controllers |-> 0]
    /\ outcome = [c \in Controllers |-> "none"]
    /\ issued = [p \in Paths |-> {}]
    /\ turns = 0

MainAtStart ==
    /\ ControllersAtStart
    /\ fs = [p \in Paths |-> NoFolder]

Init == MainAtStart /\ Unused

Turn(c) ==
    \/ UserInput(c)
    \/ ChatOk(c)
    \/ ChatFail(c)
    \/ Extract(c)
    \/ NextVersion(c)
    \/ Write(c)
    \/ Save(c)

Command(c) ==
    \/ CmdNew(c)
    \/ CmdResume(c)
    \/ Restart(c)

Next == Turn(1) \/ Command(1)

Spec == Init /\ [][Next]_vars

\* One session, with version directories removed from outside.
NextExt == Turn(1) \/ ExternalRemove

SpecExt == Init /\ [][NextExt]_vars

\* Two processes, each with a session of its own: the second was started
\* in /w1 or in /w2 and created session 2 there.
InitTwo ==
    /\ Unused
    /\ \E dir \in Paths :
          /\ store = [id \in SessionIds |->
                         IF id = 1 THEN NewDoc(1, "/w1") ELSE NewDoc(2, dir)]
          /\ cwd = [c \in Controllers |-> IF c = 1 THEN "/w1" ELSE dir]
          /\ session = [c \in Controllers |->
                           IF c = 1 THEN NewDoc(1, "/w1") ELSE NewDoc(2, dir)]
    /\ pc = [c \in Controllers |-> "Idle"]
    /\ resp = [c \in Controllers |-> <<>>]
    /\ version = [c \in Controllers |-> 0]
    /\ outcome = [c \in Controllers |-> "none"]
    /\ issued = [p \in Paths |-> {}]
    /\ turns = 0
    /\ fs = [p \in Paths |-> NoFolder]

NextTwo == Turn(1) \/ Turn(2)

SpecTwo == InitTwo /\ [][NextTwo]_vars

\* One process that only takes turns.  Every statement of a turn that has
\* begun is executed in the end: the chat call returns or throws, and the
\* calls that follow are synchronous.  Nothing makes the user type.
Progress(c) ==
    \/ ChatOk(c)
    \/ ChatFail(c)
    \/ Extract(c)
    \/ NextVersion(c)
    \/ Write(c)
    \/ Save(c)

NextTurn == Turn(1)

SpecLive == Init /\ [][NextTurn]_vars /\ WF_vars(Progress(1))

(***************************************************************************)
(* Claims about the turns of main() (Spec, SpecExt)                        *)
(***************************************************************************)
VersionDirs(folder) == {d \in DOMAIN folder.entries : IsVersionName(d)}

\* C1 as stated: a stored session with planGenerated has planVersion >= 1
\* and its project holds the directory v<planVersion> with at least one
\* artifact file in it.
C1_GeneratedPlanHasFiles ==
    \A id \in SessionIds :
        (store[id] # NoDoc /\ store[id].planGenerated) =>
            LET folder == fs[store[id].projectPath]
                dir == VName(store[id].planVersion)
            IN /\ store[id].planVersion >= 1
               /\ folder.exists
               /\ dir \in DOMAIN folder.entries
               /\ folder.entries[dir].kind = "dir"
               /\ DOMAIN folder.entries[dir].files # {}

\* C2: no step of a turn adds, changes or removes a file of a version
\* directory that exists when the step begins, nor the directory itself: a
\* version directory stays as the write that made it left it.
C2_EarlierVersionsUntouched ==
    [][\A p \in Paths : \A d \in VersionDirs(fs[p]) :
          /\ d \in DOMAIN fs'[p].entries
          /\ fs'[p].entries[d] = fs[p].entries[d]]_vars

C2_Witness ==
    \E p \in Paths :
        /\ {VName(1), VName(2)} \subseteq DOMAIN fs[p].entries
        /\ DOMAIN fs[p].entries[VName(1)].files # {}
        /\ fs[p].entries[VName(1)].files # fs[p].entries[VName(2)].files
        /\ pc[1] = "Idle"

\* The step in which controller c gets a number from getNextPlanVersion.
GetsVersion(c) == pc[c] = "Versioning" /\ pc'[c] = "Writing"

\* C3 as stated: every number returned for a project is greater than all
\* the numbers returned for it before, also when version directories are
\* removed from outside in between.
C3_NeverReturnedAgain ==
    [][\A c \in Controllers :
          GetsVersion(c) =>
              \A k \in issued[session[c].projectPath] : version'[c] > k]_vars

\* C3, amended: the number returned is greater than the number of every
\* version directory there is at the call, so greater than every number
\* returned before whose directory is still there; a number whose directory
\* was removed from outside can be returned again.
C3_AboveWhatExists ==
    [][\A c \in Controllers :
          GetsVersion(c) =>
              LET p == session[c].projectPath
              IN /\ \A d \in VersionDirs(fs[p]) : version'[c] > parseInt(Tail(d))
                 /\ \A k \in issued[p] :
                       VName(k) \in DOMAIN fs[p].entries => version'[c] > k]_vars

C3_Witness ==
    /\ pc[1] = "Writing"
    /\ version[1] = 2
    /\ issued[session[1].projectPath] = {1, 2}
    /\ VName(1) \in DOMAIN fs[session[1].projectPath].entries

PlanFields(doc) == <<doc.planGenerated, doc.planVersion>>

\* C4: the stored planGenerated and planVersion of a session change only in
\* the step that follows a writePlanFiles that returned, and a writePlanFiles
\* that threw ends the turn with the store as it was.
C4_FailedWriteKeepsPlanFields ==
    [][/\ \A id \in SessionIds :
             (store[id] # NoDoc /\ PlanFields(store'[id]) # PlanFields(store[id])) =>
                 \E c \in Controllers :
                     /\ session[c].id = id
                     /\ pc[c] = "Saving"
                     /\ outcome[c] = "written"
       /\ \A c \in Controllers :
             (pc[c] = "Writing" /\ outcome'[c] = "writeFailed") =>
                 /\ store' = store
                 /\ pc'[c] = "Idle"]_vars

C4_Witness ==
    /\ pc[1] = "Idle"
    /\ outcome[1] = "writeFailed"
    /\ ~store[session[1].id].planGenerated
    /\ store[session[1].id].planVersion = 0
    /\ \E d \in VersionDirs(fs[session[1].projectPath]) :
          DOMAIN fs[session[1].projectPath].entries[d].files # {}

\* C5: when the chat call fails the turn ends there: the user message is
\* the last of the stored log and no message is added, no session and no
\* plan file changes, and the controller waits for input again without
\* calling the chat once more.
C5_ChatFailureAbortsTurn ==
    [][\A c \in Controllers :
          (pc[c] = "AwaitingResponse" /\ outcome'[c] = "chatFailed") =>
              /\ store' = store
              /\ Last(store'[session[c].id].messages).role = "user"
              /\ fs' = fs
              /\ session'[c] = session[c]
              /\ pc'[c] = "Idle"]_vars

C5_Witness ==
    /\ pc[1] = "Idle"
    /\ outcome[1] = "chatFailed"
    /\ store[session[1].id].planGenerated
    /\ Len(store[session[1].id].messages) = 3
    /\ Last(store[session[1].id].messages).role = "user"

IsPrefix(s, t) == Len(s) <= Len(t) /\ SubSeq(t, 1, Len(s)) = s

\* C14: in every step the stored log of every session keeps the messages it
\* had, in their order, at its beginning, and the session stays stored: over
\* any run the log of an earlier state is a prefix of the log of a later one.
C14_LogAppendOnly ==
    [][\A id \in SessionIds :
          store[id] # NoDoc =>
              /\ store'[id] # NoDoc
              /\ IsPrefix(store[id].messages, store'[id].messages)]_vars

C14_Witness ==
    /\ pc[1] = "Idle"
    /\ outcome[1] = "planSaved"
    /\ store[session[1].id].planGenerated
    /\ Len(store[session[1].id].messages) = 4
    /\ \E id \in SessionIds : id # session[1].id /\ store[id] # NoDoc

\* The files the write of controller c's turn puts into a version folder.
OwnFiles(c) ==
    LET files == PlanFiles(resp[c])
        alone == writePlanFiles(NoFolder, files, version[c],
                                Len(WriteOps(NoFolder, files, version[c])))
    IN alone.folder.entries[VName(version[c])].files

\* C15 as stated: with two processes on two sessions, a session whose turn
\* has saved its plan has planVersion = N and v<N> holds the files that its
\* own turn wrote, no others and with that content, also when the two
\* sessions have the same project path.
C15_OwnVersionFolder ==
    \A c \in Controllers :
        (pc[c] = "Idle" /\ outcome[c] = "planSaved") =>
            LET doc == store[session[c].id]
                folder == fs[doc.projectPath]
            IN /\ doc.planVersion = version[c]
               /\ VName(doc.planVersion) \in DOMAIN folder.entries
               /\ folder.entries[VName(doc.planVersion)].files = OwnFiles(c)

\* What a step of controller c from one position to the next does, for the
\* positions a turn can go through one after the other.
TurnStep(c) ==
    LET id == session[c].id
        old == store[id].messages
        new == store'[id].messages
    IN \/ /\ pc[c] = "Idle" /\ pc'[c] = "AwaitingResponse"
          /\ Len(new) = Len(old) + 1 /\ IsPrefix(old, new)
          /\ Last(new).role = "user"
          /\ fs' = fs
       \/ /\ pc[c] = "AwaitingResponse" /\ pc'[c] = "Extracting"
          /\ Len(new) = Len(old) + 1 /\ IsPrefix(old, new)
          /\ Last(new) = [role |-> "assistant", content |-> resp'[c]]
          /\ fs' = fs
       \/ /\ pc[c] = "AwaitingResponse" /\ pc'[c] = "Idle"
          /\ outcome'[c] = "chatFailed"
          /\ store' = store /\ fs' = fs
       \/ /\ pc[c] = "Extracting" /\ pc'[c] = "Versioning"
          /\ Truthy(Get(planJsonOf[resp[c]], "files"))
          /\ store' = store /\ fs' = fs
       \/ /\ pc[c] = "Extracting" /\ pc'[c] = "Idle"
          /\ ~Truthy(Get(planJsonOf[resp[c]], "files"))
          /\ store' = store /\ fs' = fs
       \/ /\ pc[c] = "Versioning" /\ pc'[c] = "Writing"
          /\ version'[c] = getNextPlanVersion(fs[session[c].projectPath])
          /\ store' = store /\ fs' = fs
       \/ /\ pc[c] = "Writing" /\ pc'[c] = "Saving"
          /\ outcome'[c] = "written"
          /\ VName(version[c]) \in DOMAIN fs'[session[c].projectPath].entries
          /\ store' = store
       \/ /\ pc[c] = "Writing" /\ pc'[c] = "Idle"
          /\ outcome'[c] = "writeFailed"
          /\ store' = store
       \/ /\ pc[c] = "Saving" /\ pc'[c] = "Idle"
          /\ store'[id].planGenerated
          /\ store'[id].planVersion = version[c]
          /\ new = old
          /\ fs' = fs

\* C16: every step of a turn is the one that the order user message, chat
\* call, assistant message, extraction and, only for a found object with
\* files, nextVersion, write, session update allows at its position; input
\* is taken in Idle only; and a turn that has begun gets back to Idle.
C16_TurnOrder ==
    /\ [][\A c \in Controllers : pc'[c] # pc[c] => TurnStep(c)]_vars
    /\ [][(store' # store \/ fs' # fs \/ turns' # turns) =>
             \E c \in Controllers : pc'[c] # pc[c]]_vars
    /\ \A c \in Controllers : (pc[c] # "Idle" /\ pc[c] # "Off") ~> (pc[c] = "Idle")

C16_Witness ==
    /\ pc[1] = "Idle"
    /\ outcome[1] = "planSaved"
    /\ turns = 2
    /\ store[1].planVersion = 2

\* extractPlanJson found nothing, or an object without files, in the
\* response of controller c.
Missed(c) == ~Truthy(planJsonOf[resp[c]]) \/ ~Truthy(Get(planJsonOf[resp[c]], "files"))

\* C17: the steps of a turn up to an extraction that finds no plan add the
\* user and the assistant message to the log of the session and change
\* nothing else: planGenerated and planVersion of every session and every
\* plan file and directory stay, and the miss ends the turn.
C17_MissChangesOnlyLog ==
    [][\A c \in Controllers :
          /\ (pc[c] \in {"Idle", "AwaitingResponse"} /\ pc'[c] # pc[c]) =>
                /\ fs' = fs
                /\ \A id \in SessionIds :
                      /\ PlanFields(store'[id]) = PlanFields(store[id])
                      /\ id # session[c].id => store'[id] = store[id]
          /\ (pc[c] = "Extracting" /\ Missed(c) /\ pc'[c] # pc[c]) =>
                /\ pc'[c] = "Idle"
                /\ fs' = fs
                /\ store' = store]_vars

C17_Witness ==
    /\ pc[1] = "Idle"
    /\ outcome[1] = "noPlan"
    /\ store[session[1].id].planGenerated
    /\ store[session[1].id].planVersion = 1
    /\ Len(store[session[1].id].messages) = 4
    /\ VersionDirs(fs[session[1].projectPath]) = {VName(1)}

\* C21: in the stored log of every session each assistant message comes
\* right after a user message: the log does not begin with an assistant
\* message and has no two assistant messages in a row.
C21_AssistantFollowsUser ==
    \A id \in SessionIds :
        \A i \in 1..Len(store[id].messages) :
            store[id].messages[i].role = "assistant" =>
                /\ i > 1
                /\ store[id].messages[i - 1].role = "user"

C21_Witness ==
    LET log == store[session[1].id].messages
    IN /\ pc[1] = "Idle"
       /\ Len(log) = 3
       /\ log[1].role = "user"
       /\ log[2].role = "user"
       /\ log[3].role = "assistant"

(***************************************************************************)
(* extractPlanJson called on its own                                       *)
(***************************************************************************)
MaxExtra == 3

BraceLine == <<"{", "\"files\"", ":", "{", "\"PRD\"", ":", "\"a{\"", "}", "}">>
BracesLine ==
    <<"{", "\"files\"", ":", "{", "\"PRD\"", ":", "\"a{\"", ",",
      "\"TASKS\"", ":", "\"}\"", "}", "}">>

\* The lines a response is put together from, one by one ...
FreeLines == {OpenMd, CloseFence, Prose, <<Space>> \o PlanLine, NoteLine, <<"{">>}

\* ... and the runs of lines put into it whole.
Snippets ==
    { <<>>,
      <<OpenJson,
        <<"{">>,
        <<Space, "\"files\"", ":", Space, "{">>,
        <<Space, Space, "\"PRD\"", ":", Space, "\"y\"", ",">>,
        <<Space, Space, "\"TASKS\"", ":", Space, "\"x\"">>,
        <<Space, "}">>,
        <<"}">>,
        CloseFence>>,
      <<OpenMd, BraceLine, CloseFence>>,
      <<OpenMd, BracesLine, CloseFence>>,
      <<OpenJson, Prose, CloseFence>>,
      <<OpenMd, Prose, CloseFence, Prose, OpenJson,
        <<"{", "\"files\"", ":", "{", "\"TASKS\"", ":", "\"y\"", "}", "}">>,
        CloseFence>>,
      <<OpenMd, BraceLine, CloseFence, <<"}">>, CloseFence>> }

InitExtract ==
    /\ MainAtStart
    /\ call = NoCall
    /\ planJson = JUndefined
    /\ \E pre \in SeqsUpTo(FreeLines, MaxExtra) :
          \E post \in SeqsUpTo(FreeLines, MaxExtra - Len(pre)) :
             \E mid \in Snippets :
                response = Join(pre \o mid \o post)

CallExtract ==
    /\ planJson = JUndefined
    /\ planJson' = extractPlanJson(response)
    /\ UNCHANGED <<store, fs, cwd, session, pc, resp, version, outcome, issued, turns,
                   response, call>>

SpecExtract == InitExtract /\ [][CallExtract]_vars

(***************************************************************************)
(* Claims about extractPlanJson (SpecExtract)                              *)
(***************************************************************************)
Called == planJson # JUndefined

NoFenceLine == \A i \in 1..Len(response) : response[i] # Fence

\* The lines that hold a fence, and the first of them after line i.
FenceLines(lines) == {k \in 1..Len(lines) : Fence \in Range(lines[k])}
NextFence(lines, i) == Min({k \in FenceLines(lines) : k > i})

\* The lines strictly between line i and line j, as one text.
Body(lines, i, j) == Join(SubSeq(lines, i + 1, j - 1))

BodyBalanced(lines, i, j) ==
    SumSeq([k \in 1..(j - i - 1) |-> BraceDelta(lines[i + k])]) = 0

\* Lines i..j are a fenced block tagged md or json that holds one JSON object
\* with a files member.
JsonBlock(lines, i, j) ==
    /\ i < j
    /\ IsOpeningFence(lines[i])
    /\ IsClosingFence(lines[j])
    /\ LET parsed == JSONparse(Body(lines, i, j))
       IN parsed.ok /\ "files" \in Keys(parsed.val)

PlanOf(lines, i, j) == Get(JSONparse(Body(lines, i, j)).val, "files")

\* ... whose files member is a mapping and whose braces balance
WellFormedBlock(lines, i, j) ==
    /\ JsonBlock(lines, i, j)
    /\ PlanOf(lines, i, j).type = "object"
    /\ BodyBalanced(lines, i, j)

\* The blocks of a text: an opening fence and the next line with a fence.
Blocks(lines) ==
    {<<i, NextFence(lines, i)>> :
        i \in {k \in FenceLines(lines) : \E m \in FenceLines(lines) : m > k}}

SameFiles(a, b) ==
    /\ a.type = "object"
    /\ b.type = "object"
    /\ Keys(a) = Keys(b)
    /\ \A k \in Keys(a) : Get(a, k) = Get(b, k)

\* No line from the first opening fence of the text up to line i starts
\* with a brace.
NoBraceLineBefore(lines, i) ==
    LET first == Min({k \in 1..Len(lines) : IsOpeningFence(lines[k])})
    IN \A k \in first..i : ~StartsWithBrace(lines[k])

\* C6 as stated: a response without any fence line gives NotFound (null).
C6_NoFenceNotFound == (Called /\ NoFenceLine) => planJson = JNull

\* C6, amended: a response without any fence line leaves the scan's buffer
\* empty and gives what the fallback search gives: the object between the
\* first { and the last } of the text when "files" lies between them and
\* the text parses, and null otherwise.
C6_NoFenceGivesFallback ==
    (Called /\ NoFenceLine) =>
        /\ planJson = Fallback(response)
        /\ (planJson # JNull) <=>
              (RegexMatch(response).found /\ JSONparse(RegexMatch(response).text).ok)

C6_Witness ==
    /\ Called
    /\ NoFenceLine
    /\ planJson # JNull
    /\ Len(Split(response)) >= 2

\* C7 as stated: a response holding a well-formed block gives the files of
\* such a block, whatever precedes it.
C7_BlockAlwaysFound ==
    LET lines == Split(response)
        good == {b \in Blocks(lines) : WellFormedBlock(lines, b[1], b[2])}
    IN (Called /\ good # {}) =>
          \E b \in good : SameFiles(Get(planJson, "files"), PlanOf(lines, b[1], b[2]))

\* C7, amended: a well-formed block gives its files, with the same sections
\* and the same values, whatever follows it, when no line between the first
\* md or json opening fence of the response and the block's object starts
\* with a brace.
C7_FirstObjectFound ==
    LET lines == Split(response)
    IN Called =>
          \A b \in Blocks(lines) :
              (WellFormedBlock(lines, b[1], b[2]) /\ NoBraceLineBefore(lines, b[1])) =>
                  SameFiles(Get(planJson, "files"), PlanOf(lines, b[1], b[2]))

C7_Witness ==
    LET lines == Split(response)
    IN /\ Called
       /\ \E b \in Blocks(lines) :
             /\ WellFormedBlock(lines, b[1], b[2])
             /\ NoBraceLineBefore(lines, b[1])
             /\ b[1] > 2
             /\ b[2] < Len(lines)
             /\ Cardinality(Keys(PlanOf(lines, b[1], b[2]))) = 2
             /\ SameFiles(Get(planJson, "files"), PlanOf(lines, b[1], b[2]))

\* The text has exactly two fenced blocks, lines a..b and c..d: the first
\* holds lines of which none starts with a brace, the second one JSON object
\* with a files member.
TwoBlocks(lines, a, b, c, d) ==
    /\ FenceLines(lines) = {a, b, c, d}
    /\ a + 1 < b /\ b < c /\ c < d
    /\ IsOpeningFence(lines[a])
    /\ IsClosingFence(lines[b])
    /\ \A k \in (a + 1)..(b - 1) : ~StartsWithBrace(lines[k])
    /\ JsonBlock(lines, c, d)

\* The four lines with a fence, in order, of a text that has four.
Quad(lines) ==
    LET f == FenceLines(lines)
        a == Min(f)
        d == Max(f)
        b == Min(f \ {a})
        c == Max(f \ {d})
    IN <<a, b, c, d>>

\* C8 as stated: prose block, then JSON block: the second block's content.
C8_SecondBlockFound ==
    LET lines == Split(response)
        q == Quad(lines)
    IN (Called /\ Cardinality(FenceLines(lines)) = 4
               /\ TwoBlocks(lines, q[1], q[2], q[3], q[4])) =>
          planJson = JSONparse(Body(lines, q[3], q[4])).val

\* When C8's amended statement applies to a text.
C8_Case(lines) ==
    /\ Cardinality(FenceLines(lines)) = 4
    /\ LET q == Quad(lines)
       IN /\ TwoBlocks(lines, q[1], q[2], q[3], q[4])
          /\ BodyBalanced(lines, q[3], q[4])
          /\ \A k \in q[1]..q[3] : ~StartsWithBrace(lines[k])

\* C8, amended: the second block's content, when its braces balance and no
\* line before its object starts with a brace.
C8_SecondBalancedBlockFound ==
    LET lines == Split(response)
    IN (Called /\ C8_Case(lines)) =>
          planJson = JSONparse(Body(lines, Quad(lines)[3], Quad(lines)[4])).val

C8_Witness ==
    LET lines == Split(response)
    IN /\ Called
       /\ C8_Case(lines)
       /\ Truthy(Get(planJson, "files"))
       /\ planJson = JSONparse(Body(lines, Quad(lines)[3], Quad(lines)[4])).val

\* The buffer with one more line.
Appended(st, line) == st.jsonContent \o line \o <<NL>>

\* C18: once inside a block the scan stays inside: a closing fence met
\* before an object has begun changes nothing, a later opening fence resets
\* nothing and is treated as any line of the block, and the buffer, the
\* count and the flag are reset at most once in a scan.
C18_BlockNeverLeft ==
    LET lines == Split(response)
        scan == [k \in 0..Len(lines) |-> Scan(lines, k)]
    IN Called =>
          /\ \A k \in 1..Len(lines) :
                LET a == scan[k - 1]
                    b == scan[k]
                IN /\ a.inJsonBlock => b.inJsonBlock
                   /\ (a.inJsonBlock /\ ~a.stopped /\ ~a.started
                       /\ IsClosingFence(lines[k])) => b = a
                   /\ (a.inJsonBlock /\ ~a.stopped /\ IsOpeningFence(lines[k])) =>
                         IF a.started
                         THEN b = [a EXCEPT !.jsonContent = Appended(a, lines[k]),
                                            !.braceCount = @ + BraceDelta(lines[k])]
                         ELSE b = a
          /\ Cardinality({k \in 1..Len(lines) :
                             ~scan[k - 1].inJsonBlock /\ scan[k].inJsonBlock}) <= 1

C18_Witness ==
    LET lines == Split(response)
    IN /\ Called
       /\ \E j, k \in 1..Len(lines) :
             /\ j < k
             /\ Scan(lines, j - 1).inJsonBlock
             /\ ~Scan(lines, j - 1).started
             /\ IsClosingFence(lines[j])
             /\ IsOpeningFence(lines[k])
             /\ ~Scan(lines, k).stopped
       /\ Truthy(Get(planJson, "files"))

\* C19: the scan ends at a closing fence exactly when an object has begun
\* and the count is zero there, and the result is then what the buffer of
\* that moment gives, whatever the later lines are; a closing fence met with
\* an object begun and the count not zero is appended to the buffer and the
\* scan goes on.
C19_StopsAtBalancedClose ==
    LET lines == Split(response)
        scan == [k \in 0..Len(lines) |-> Scan(lines, k)]
    IN Called =>
          \A k \in 1..Len(lines) :
             LET a == scan[k - 1]
                 b == scan[k]
                 close == a.inJsonBlock /\ ~a.stopped /\ a.started
                          /\ IsClosingFence(lines[k])
             IN /\ (b.stopped /\ ~a.stopped) <=> (close /\ a.braceCount = 0)
                /\ (close /\ a.braceCount = 0) =>
                      /\ b.jsonContent = a.jsonContent
                      /\ planJson = IF JSONparse(a.jsonContent).ok
                                    THEN JSONparse(a.jsonContent).val
                                    ELSE JNull
                /\ (close /\ a.braceCount # 0) =>
                      b.jsonContent = Appended(a, lines[k])

C19_Witness ==
    LET lines == Split(response)
    IN /\ Called
       /\ \E j, k \in 1..Len(lines) :
             /\ j < k
             /\ k < Len(lines)
             /\ Scan(lines, j - 1).started
             /\ Scan(lines, j - 1).braceCount # 0
             /\ IsClosingFence(lines[j])
             /\ ~Scan(lines, k - 1).stopped
             /\ Scan(lines, k).stopped

\* C20: the result is that of the buffer alone when the scan leaves a
\* buffer that is not empty, null when that buffer does not parse, and that
\* of the fallback search exactly when the buffer is empty.
C20_FallbackOnlyOnEmptyBuffer ==
    LET lines == Split(response)
        buffer == Scan(lines, Len(lines)).jsonContent
    IN Called =>
          IF buffer = <<>>
          THEN planJson = Fallback(response)
          ELSE planJson = IF JSONparse(buffer).ok THEN JSONparse(buffer).val ELSE JNull

C20_Witness ==
    LET lines == Split(response)
        buffer == Scan(lines, Len(lines)).jsonContent
    IN /\ Called
       /\ buffer # <<>>
       /\ ~JSONparse(buffer).ok
       /\ Truthy(Get(Fallback(response), "files"))
       /\ planJson = JNull

(***************************************************************************)
(* getNextPlanVersion and writePlanFiles called on their own (SpecVersion) *)
(*                                                                         *)
(* The plan folder of /w1 starts absent, or with any of the entries of     *)
(* NamePool; one call is made and call records it.                         *)
(***************************************************************************)
NamePool ==
    {<<"v", "1">>, <<"v", "2">>, <<"v", "7">>, <<"v", "1", "0">>, <<"v">>,
     <<"f", "o", "o">>, <<"v", "3", "a", "b", "c">>}

Folders ==
    {NoFolder} \cup
    {[exists |-> TRUE, entries |-> [d \in names |-> DirEntry(<<>>)]] :
        names \in SUBSET NamePool}

\* The values a section of the files object can have: none, or a text.
Texts == {"", "x", "y"}

FilesOf(prd, errors) ==
    JObj((IF prd = "none" THEN <<>> ELSE <<<<"PRD", JStr(prd)>>>>)
         \o (IF errors = "none" THEN <<>> ELSE <<<<"ERRORS", JStr(errors)>>>>))

ArtifactSets == {FilesOf(prd, errors) : prd, errors \in Texts \cup {"none"}}

InitVersion ==
    /\ ControllersAtStart
    /\ response = <<>>
    /\ planJson = JNull
    /\ call = NoCall
    /\ \E folder \in Folders :
          fs = [p \in Paths |-> IF p = "/w1" THEN folder ELSE NoFolder]

CallNextVersion ==
    /\ call.op = "none"
    /\ call' = [NoCall EXCEPT !.op = "nextVersion",
                              !.before = fs["/w1"],
                              !.ret = getNextPlanVersion(fs["/w1"])]
    /\ UNCHANGED <<store, fs, cwd, session, pc, resp, version, outcome, issued, turns,
                   response, planJson>>

CallWrite ==
    /\ call.op = "none"
    /\ \E files \in ArtifactSets :
          \E ver \in {1, 2, getNextPlanVersion(fs["/w1"])} :
             \E done \in WriteRuns(fs["/w1"], files, ver) :
                LET w == writePlanFiles(fs["/w1"], files, ver, done)
                IN /\ fs' = [fs EXCEPT !["/w1"] = w.folder]
                   /\ call' = [NoCall EXCEPT !.op = "write",
                                             !.before = fs["/w1"],
                                             !.files = files,
                                             !.ver = ver,
                                             !.ok = w.ok]
    /\ UNCHANGED <<store, cwd, session, pc, resp, version, outcome, issued, turns,
                   response, planJson>>

NextVersionCalls == CallNextVersion \/ CallWrite

SpecVersion == InitVersion /\ [][NextVersionCalls]_vars

(***************************************************************************)
(* Claims about getNextPlanVersion and writePlanFiles (SpecVersion)        *)
(***************************************************************************)
\* The number each name of NamePool stands for as 'v' followed by one or
\* more digits, 0 for the names of any other form.
NameNumber ==
    (<<"v", "1">> :> 1) @@ (<<"v", "2">> :> 2) @@ (<<"v", "7">> :> 7) @@
    (<<"v", "1", "0">> :> 10) @@ (<<"v">> :> 0) @@
    (<<"f", "o", "o">> :> 0) @@ (<<"v", "3", "a", "b", "c">> :> 0)

Numbers(folder) == {NameNumber[d] : d \in DOMAIN folder.entries} \ {0}

\* C9: getNextPlanVersion returns 1 when the plan folder is absent or has
\* no entry named v<digits>, and otherwise the highest number of such an
\* entry plus 1; the entries of any other name do not count.
C9_NextVersionIsMaxPlusOne ==
    call.op = "nextVersion" =>
        LET numbers == Numbers(call.before)
        IN call.ret = IF ~call.before.exists \/ numbers = {}
                      THEN 1
                      ELSE (CHOOSE n \in numbers : \A m \in numbers : m <= n) + 1

C9_Witness ==
    /\ call.op = "nextVersion"
    /\ DOMAIN call.before.entries =
          {<<"v", "1">>, <<"f", "o", "o">>, <<"v", "3", "a", "b", "c">>}
    /\ call.ret = 2

\* C10 as stated: writePlanFiles that returns, for a version whose folder
\* was absent, leaves in v<N> exactly one file <section>.md per section of
\* the files object, the empty text included, with the text as its content,
\* and the same files in the plan folder.
C10_OneFilePerSection ==
    (call.op = "write" /\ call.ok
     /\ VName(call.ver) \notin DOMAIN call.before.entries) =>
        LET folder == fs["/w1"]
            dir == folder.entries[VName(call.ver)]
        IN /\ DOMAIN dir.files = {MdName[sec] : sec \in Keys(call.files)}
           /\ \A sec \in Keys(call.files) :
                 /\ dir.files[MdName[sec]] = Get(call.files, sec).str
                 /\ MdName[sec] \in DOMAIN folder.entries
                 /\ folder.entries[MdName[sec]] = FileEntry(Get(call.files, sec).str)

(***************************************************************************)
(* writePlanFiles called more than once (SpecWrite)                        *)
(*                                                                         *)
(* The plan folder of /w1 starts absent, empty, or as an earlier write     *)
(* left it.  A first call is made; after it returned, a second call is     *)
(* made, with the same arguments (writeAgain) or as main() makes its next  *)
(* one, with other files and the next version (writeNext).                 *)
(***************************************************************************)
WrittenOnce ==
    [exists |-> TRUE,
     entries |-> (VName(1) :> DirEntry(MdName["PRD"] :> "y" @@ MdName["ERRORS"] :> "y"))
                 @@ (MdName["PRD"] :> FileEntry("y"))
                 @@ (MdName["ERRORS"] :> FileEntry("y"))]

WriteFolders == {NoFolder, [exists |-> TRUE, entries |-> <<>>], WrittenOnce}

InitWrite ==
    /\ ControllersAtStart
    /\ response = <<>>
    /\ planJson = JNull
    /\ call = NoCall
    /\ \E folder \in WriteFolders :
          fs = [p \in Paths |-> IF p = "/w1" THEN folder ELSE NoFolder]

CallWriteAgain ==
    /\ call.op = "write"
    /\ call.ok
    /\ \E done \in WriteRuns(fs["/w1"], call.files, call.ver) :
          LET w == writePlanFiles(fs["/w1"], call.files, call.ver, done)
          IN /\ fs' = [fs EXCEPT !["/w1"] = w.folder]
             /\ call' = [call EXCEPT !.op = "writeAgain",
                                     !.before = fs["/w1"],
                                     !.ok = w.ok]
    /\ UNCHANGED <<store, cwd, session, pc, resp, version, outcome, issued, turns,
                   response, planJson>>

CallWriteNext ==
    /\ call.op = "write"
    /\ call.ok
    /\ \E files \in ArtifactSets :
          LET ver == getNextPlanVersion(fs["/w1"])
          IN \E done \in WriteRuns(fs["/w1"], files, ver) :
                LET w == writePlanFiles(fs["/w1"], files, ver, done)
                IN /\ fs' = [fs EXCEPT !["/w1"] = w.folder]
                   /\ call' = [NoCall EXCEPT !.op = "writeNext",
                                             !.before = fs["/w1"],
                                             !.files = files,
                                             !.ver = ver,
                                             !.ok = w.ok]
    /\ UNCHANGED <<store, cwd, session, pc, resp, version, outcome, issued, turns,
                   response, planJson>>

NextWrite == CallWrite \/ CallWriteAgain \/ CallWriteNext

SpecWrite == InitWrite /\ [][NextWrite]_vars

(***************************************************************************)
(* Claims about repeated writes (SpecWrite)                                *)
(***************************************************************************)
\* The section files of the plan folder itself: name and content.
RootFiles(folder) ==
    [name \in {d \in DOMAIN folder.entries : folder.entries[d].kind = "file"} |->
        folder.entries[name].content]

\* C11 as stated: after writes that all returned, the section files of the
\* plan folder are those of the version directory written last, with the
\* same content.
C11_RootMirrorsLatest ==
    (call.op \in {"write", "writeNext"} /\ call.ok) =>
        RootFiles(fs["/w1"]) = fs["/w1"].entries[VName(call.ver)].files

\* C12: writePlanFiles called a second time with the arguments of a call
\* that returned, and returning again, leaves every directory and file as
\* the first call left it.
C12_WriteIdempotent ==
    (call.op = "writeAgain" /\ call.ok) => fs["/w1"] = call.before

C12_Witness ==
    /\ call.op = "writeAgain"
    /\ call.ok
    /\ Cardinality(Keys(call.files)) = 2
    /\ call.ver = 1
    /\ fs["/w1"].entries[VName(1)].files[MdName["PRD"]] = "x"
    /\ fs["/w1"].entries[MdName["ERRORS"]].content = "y"
    /\ fs["/w1"] = call.before

(***************************************************************************)
(* addMessage called on its own (SpecStore)                                *)
(*                                                                         *)
(* Each session id starts without a stored document or with one of         *)
(* StoredDocs; one call is made, for any id and message.                   *)
(***************************************************************************)
StoredDocs(id) ==
    {[NewDoc(id, p) EXCEPT !.messages = msgs, !.planGenerated = g > 0, !.planVersion = g] :
        p \in {"/w1"},
        msgs \in {<<>>, <<[role |-> "user", content |-> <<"text">>]>>},
        g \in {0, 1}}

Messages ==
    {[role |-> "user", content |-> input] : input \in Inputs}
    \cup {[role |-> "assistant", content |-> text] : text \in Responses}

InitStore ==
    /\ cwd = [c \in Controllers |-> "/w1"]
    /\ session = [c \in Controllers |-> NoDoc]
    /\ pc = [c \in Controllers |-> "Off"]
    /\ resp = [c \in Controllers |-> <<>>]
    /\ version = [c \in Controllers |-> 0]
    /\ outcome = [c \in Controllers |-> "none"]
    /\ issued = [p \in Paths |-> {}]
    /\ turns = 0
    /\ fs = [p \in Paths |-> NoFolder]
    /\ response = <<>>
    /\ planJson = JNull
    /\ call = NoCall
    /\ store \in [SessionIds -> UNION {StoredDocs(id) \cup {NoDoc} : id \in SessionIds}]
    /\ \A id \in SessionIds : store[id] = NoDoc \/ store[id].id = id

CallAddMessage ==
    /\ call.op = "none"
    /\ \E sessionId \in SessionIds : \E message \in Messages :
          LET r == addMessage(store, sessionId, message)
          IN /\ store' = r.store
             /\ call' = [op |-> "addMessage", before |-> store, files |-> JNull,
                         ver |-> 0, id |-> sessionId, ret |-> r.ret, ok |-> r.ret # NoDoc]
    /\ UNCHANGED <<fs, cwd, session, pc, resp, version, outcome, issued, turns,
                   response, planJson>>

SpecStore == InitStore /\ [][CallAddMessage]_vars

\* C13: addMessage for an id without a stored document returns null and
\* leaves the store as it was: no document is created for the id and the
\* documents of the other ids are the same.
C13_AddMessageMissingSession ==
    (call.op = "addMessage" /\ call.before[call.id] = NoDoc) =>
        /\ call.ret = NoDoc
        /\ store[call.id] = NoDoc
        /\ store = call.before

C13_Witness ==
    /\ call.op = "addMessage"
    /\ call.id = 2
    /\ call.before[2] = NoDoc
    /\ call.before[1] # NoDoc
    /\ Len(store[1].messages) = 1
    /\ call.ret = NoDoc

====
